---- MODULE Spec2Model ----
(***************************************************************************)
(* remove_bg.py: remove_white_background(input_path, output_path,          *)
(* threshold).  One call decodes the file at input_path, converts it to    *)
(* RGBA, turns it into an array indexed [row][column][channel], marks the  *)
(* pixels whose r, g and b all exceed the threshold, sets their alpha to   *)
(* 0, and saves the array as an image at output_path, then prints a        *)
(* confirmation.                                                           *)
(*                                                                         *)
(* A file on disk is a record: absent, undecodable, truncated, or a PNG    *)
(* holding scanlines rows[y][x].  A decoded image addresses its pixels as  *)
(* px[x][y] (column first, as getpixel((x, y))); the array made from it    *)
(* addresses them as data[y][x][c] (row first).  The program counter pc    *)
(* names the source line that runs next.                                   *)
(***************************************************************************)
EXTENDS Integers, Sequences, FiniteSets, TLC

VARIABLES fs, pc, input_path, output_path, threshold, img, data,
          white_areas, result, created, stdout, raised, entry, trace, rerun

vars == <<fs, pc, input_path, output_path, threshold, img, data,
          white_areas, result, created, stdout, raised, entry, trace, rerun>>

(***************************************************************************)
(* Bounds and input sets                                                   *)
(***************************************************************************)
\* An input image has at most MaxPixels pixels (width * height).
MaxPixels == 3

\* threshold=240 is the default of the signature.
DefaultThreshold == 240

\* The two paths of the entry point.
Paths == {"public/assets/logo-flags.png", "public/assets/logo-flags-transparent.png"}

\* Thresholds the caller passes: the default, the ends of the 8-bit range,
\* and two outside it that are congruent to the default modulo 256.
Thresholds == {DefaultThreshold - 256, 0, DefaultThreshold, 255, DefaultThreshold + 256}

\* RGBA pixels an input file may hold: white, just above the default, and
\* three in which a different channel is the only one at a threshold (r and
\* g at 0, b at the default).
Pixels == { <<255, 255, 255, 200>>,
            <<241, 241, 241, 255>>,
            <<0, 240, 255, 128>>,
            <<255, 0, 240, 255>>,
            <<255, 241, 240, 0>> }

Sizes == {s \in (1..MaxPixels) \X (1..MaxPixels) : s[1] * s[2] <= MaxPixels}

(***************************************************************************)
(* Files                                                                   *)
(***************************************************************************)
Absent == [kind |-> "absent"]

Corrupt == [kind |-> "corrupt"]

Truncated == [kind |-> "truncated"]

NoImage == [mode |-> "None"]

\* A PNG file of the given mode whose scanlines are rows (rows[y][x]).
PngFile(mode, rows) ==
    [kind |-> "PNG", mode |-> mode, width |-> Len(rows[1]), height |-> Len(rows),
     rows |-> rows]

DropAlpha(p) == <<p[1], p[2], p[3]>>

\* All scanline grids of size s = <<W, H>> over the pixel set P.
Grids(s, P) == [1..s[2] -> [1..s[1] -> P]]

InputFiles ==
    UNION { {PngFile("RGBA", g) : g \in Grids(s, Pixels)} \cup
            {PngFile("RGB", g) : g \in Grids(s, {DropAlpha(p) : p \in Pixels})}
            : s \in Sizes }

\* A file that may already sit at the other path before the call.
StaleFile == PngFile("RGBA", << << <<0, 0, 0, 255>> >> >>)

(***************************************************************************)
(* The image library and the array library, as the code uses them          *)
(***************************************************************************)
\* Image.open(path): the decoded image, px[x][y], in the file's own mode.
Open(f) ==
    [mode |-> f.mode, size |-> <<f.width, f.height>>,
     px |-> [x \in 1..f.width |-> [y \in 1..f.height |-> f.rows[y][x]]]]

\* A conversion that synthesises a transparent alpha instead of an opaque one.
ConvertRGBA_Transparent(im) ==
    IF im.mode = "RGBA" THEN im
    ELSE [mode |-> "RGBA", size |-> im.size,
          px |-> [x \in 1..im.size[1] |-> [y \in 1..im.size[2] |->
                    <<im.px[x][y][1], im.px[x][y][2], im.px[x][y][3], 0>>]]]

\* .convert("RGBA"): an image without alpha gets alpha 255 in every pixel.
ConvertRGBA(im) ==
    IF im.mode = "RGBA" THEN im
    ELSE [mode |-> "RGBA", size |-> im.size,
          px |-> [x \in 1..im.size[1] |-> [y \in 1..im.size[2] |->
                    <<im.px[x][y][1], im.px[x][y][2], im.px[x][y][3], 255>>]]]

\* np.array(img): shape (H, W, 4), data[y][x][c].
Array(im) ==
    [y \in 1..im.size[2] |-> [x \in 1..im.size[1] |-> im.px[x][y]]]

\* data.T of a 3-d array: the axes reversed, T[c][x][y] = data[y][x][c].
T3(d) ==
    [c \in 1..Len(d[1][1]) |-> [x \in 1..Len(d[1]) |-> [y \in 1..Len(d) |-> d[y][x][c]]]]

\* m.T of a 2-d array.
T2(m) ==
    [j \in 1..Len(m[1]) |-> [i \in 1..Len(m) |-> m[i][j]]]

\* The shape of a 2-d array.
Shape2(m) == <<Len(m), Len(m[1])>>

\* data[..., 3]: the alpha plane, shape (H, W).
AlphaPlane(d) ==
    [y \in 1..Len(d) |-> [x \in 1..Len(d[1]) |-> d[y][x][4]]]

\* The comparison written with >= instead of >.
WhiteAreas_GreaterEq(d, t) ==
    [x \in 1..Len(d[1]) |-> [y \in 1..Len(d) |->
        (d[y][x][1] >= t) /\ (d[y][x][2] >= t) /\ (d[y][x][3] >= t)]]

\* The comparison written with < instead of >.
WhiteAreas_Less(d, t) ==
    [x \in 1..Len(d[1]) |-> [y \in 1..Len(d) |->
        (d[y][x][1] < t) /\ (d[y][x][2] < t) /\ (d[y][x][3] < t)]]

\* The threshold cast to the channels' 8-bit type before the comparison.
WhiteAreas_Wrap(d, t) ==
    [x \in 1..Len(d[1]) |-> [y \in 1..Len(d) |->
        (d[y][x][1] > t % 256) /\ (d[y][x][2] > t % 256) /\ (d[y][x][3] > t % 256)]]

\* (r > threshold) & (g > threshold) & (b > threshold), with r, g, b, a = data.T.
WhiteAreas(d, t) ==
    LET r == T3(d)[1]
        g == T3(d)[2]
        b == T3(d)[3]
    IN  [x \in 1..Len(r) |-> [y \in 1..Len(r[1]) |->
            (r[x][y] > t) /\ (g[x][y] > t) /\ (b[x][y] > t)]]

\* data[mask] = 0: the channel index forgotten, so all four channels are zeroed.
MaskAssign_AllChannels(d, mask) ==
    [y \in 1..Len(d) |-> [x \in 1..Len(d[1]) |->
        IF mask[y][x] THEN <<0, 0, 0, 0>> ELSE d[y][x]]]

\* data[..., 3][mask] -= 255: alpha lowered in 8-bit arithmetic instead of set.
MaskAssign_Subtract(d, mask) ==
    [y \in 1..Len(d) |-> [x \in 1..Len(d[1]) |->
        IF mask[y][x]
        THEN <<d[y][x][1], d[y][x][2], d[y][x][3], (d[y][x][4] - 255) % 256>>
        ELSE d[y][x]]]

\* data[..., 3][mask] = 0, mask of shape (H, W).
MaskAssign(d, mask) ==
    [y \in 1..Len(d) |-> [x \in 1..Len(d[1]) |->
        IF mask[y][x] THEN <<d[y][x][1], d[y][x][2], d[y][x][3], 0>> ELSE d[y][x]]]

\* The array's axes read as (W, H) instead of (H, W).
FromArray_Swapped(d) ==
    [mode |-> "RGBA", size |-> <<Len(d), Len(d[1])>>,
     px |-> [x \in 1..Len(d) |-> [y \in 1..Len(d[1]) |-> d[x][y]]]]

\* Image.fromarray(data): an RGBA image of size (W, H) from shape (H, W, 4).
FromArray(d) ==
    [mode |-> "RGBA", size |-> <<Len(d[1]), Len(d)>>,
     px |-> [x \in 1..Len(d[1]) |-> [y \in 1..Len(d) |-> d[y][x]]]]

\* What result.save writes when it completes: the image's scanlines.
Encode(im) ==
    PngFile(im.mode, [y \in 1..im.size[2] |-> [x \in 1..im.size[1] |-> im.px[x][y]]])

\* The result saved over the source.
SaveTarget_Input == input_path

\* The file result.save opens for writing.
SaveTarget == output_path

(***************************************************************************)
(* The call                                                                *)
(***************************************************************************)
Init ==
    /\ \E src \in InputFiles \cup {Absent, Corrupt}, other \in {Absent, StaleFile} :
         fs = [p \in Paths |->
                 IF p = "public/assets/logo-flags.png" THEN src ELSE other]
    /\ input_path \in Paths
    /\ output_path \in Paths
    /\ threshold \in Thresholds
    /\ pc = "L5"
    /\ img = NoImage
    /\ data = <<>>
    /\ white_areas = <<>>
    /\ result = NoImage
    /\ created = FALSE
    /\ stdout = <<>>
    /\ raised = "None"
    /\ entry = [fs |-> fs, stdout |-> <<>>]
    /\ trace = <<>>
    /\ rerun = FALSE

\* Line 5: Image.open(input_path).convert("RGBA") on a decodable file.
OpenConvert ==
    /\ pc = "L5"
    /\ fs[input_path].kind = "PNG"
    /\ img' = ConvertRGBA(Open(fs[input_path]))
    /\ pc' = "L6"
    /\ trace' = Append(trace, 5)
    /\ UNCHANGED <<fs, input_path, output_path, threshold, data, white_areas,
                   result, created, stdout, raised, entry, rerun>>

\* Line 5 raises: the file is missing or is no image.
OpenFail ==
    /\ pc = "L5"
    /\ fs[input_path].kind # "PNG"
    /\ raised' = IF fs[input_path].kind = "absent" THEN "FileNotFoundError"
                 ELSE "UnidentifiedImageError"
    /\ pc' = "raised"
    /\ trace' = Append(trace, 5)
    /\ UNCHANGED <<fs, input_path, output_path, threshold, img, data, white_areas,
                   result, created, stdout, entry, rerun>>

\* Line 6: data = np.array(img).
ToArray ==
    /\ pc = "L6"
    /\ data' = Array(img)
    /\ pc' = "L12"
    /\ trace' = Append(trace, 6)
    /\ UNCHANGED <<fs, input_path, output_path, threshold, img, white_areas,
                   result, created, stdout, raised, entry, rerun>>

\* Lines 9 and 12: the mask, shape (W, H).
Classify ==
    /\ pc = "L12"
    /\ white_areas' = WhiteAreas(data, threshold)
    /\ pc' = "L15"
    /\ trace' = Append(trace, 12)
    /\ UNCHANGED <<fs, input_path, output_path, threshold, img, data,
                   result, created, stdout, raised, entry, rerun>>

\* Line 15: data[..., 3][white_areas.T] = 0.
SetAlpha ==
    /\ pc = "L15"
    /\ data' = MaskAssign(data, T2(white_areas))
    /\ pc' = "L18"
    /\ trace' = Append(trace, 15)
    /\ UNCHANGED <<fs, input_path, output_path, threshold, img, white_areas,
                   result, created, stdout, raised, entry, rerun>>

\* Line 18: result = Image.fromarray(data).
MakeResult ==
    /\ pc = "L18"
    /\ result' = FromArray(data)
    /\ pc' = "L19"
    /\ trace' = Append(trace, 18)
    /\ UNCHANGED <<fs, input_path, output_path, threshold, img, data, white_areas,
                   created, stdout, raised, entry, rerun>>

\* Line 19, first half: save opens the target for writing, which creates it
\* or empties what it held.
SaveOpen ==
    /\ pc = "L19"
    /\ created' = (fs[SaveTarget].kind = "absent")
    /\ fs' = [fs EXCEPT ![SaveTarget] = Truncated]
    /\ pc' = "L19w"
    /\ trace' = Append(trace, 19)
    /\ UNCHANGED <<input_path, output_path, threshold, img, data, white_areas,
                   result, stdout, raised, entry, rerun>>

\* Line 19 raises before the file is opened: the location is not writable.
SaveOpenFail ==
    /\ pc = "L19"
    /\ raised' = "OSError"
    /\ pc' = "raised"
    /\ trace' = Append(trace, 19)
    /\ UNCHANGED <<fs, input_path, output_path, threshold, img, data, white_areas,
                   result, created, stdout, entry, rerun>>

\* Line 19, second half: the encoder writes the whole image and save returns.
SaveWrite ==
    /\ pc = "L19w"
    /\ fs' = [fs EXCEPT ![SaveTarget] = Encode(result)]
    /\ pc' = "L20"
    /\ UNCHANGED <<input_path, output_path, threshold, img, data, white_areas,
                   result, created, stdout, raised, entry, trace, rerun>>

\* The write error swallowed: the call goes on to line 20.
SaveWriteFail_Swallow ==
    /\ pc = "L19w"
    /\ fs' = [fs EXCEPT ![SaveTarget] = IF created THEN Absent ELSE Truncated]
    /\ pc' = "L20"
    /\ UNCHANGED <<input_path, output_path, threshold, img, data, white_areas,
                   result, created, stdout, raised, entry, trace, rerun>>

\* Line 19 raises while writing (the disk is full): save removes the file if
\* this call created it and leaves it as it is otherwise.
SaveWriteFail ==
    /\ pc = "L19w"
    /\ fs' = [fs EXCEPT ![SaveTarget] = IF created THEN Absent ELSE Truncated]
    /\ raised' = "OSError"
    /\ pc' = "raised"
    /\ UNCHANGED <<input_path, output_path, threshold, img, data, white_areas,
                   result, created, stdout, entry, trace, rerun>>

\* Line 20: the confirmation message.
PrintSaved ==
    /\ pc = "L20"
    /\ stdout' = Append(stdout, output_path)
    /\ pc' = "done"
    /\ trace' = Append(trace, 20)
    /\ UNCHANGED <<fs, input_path, output_path, threshold, img, data, white_areas,
                   result, created, raised, entry, rerun>>

\* The caller runs the function again on the file it has just written, with
\* the same threshold.
Rerun ==
    /\ pc = "done"
    /\ ~rerun
    /\ rerun' = TRUE
    /\ input_path' = output_path
    /\ output_path' \in Paths
    /\ pc' = "L5"
    /\ img' = NoImage
    /\ data' = <<>>
    /\ white_areas' = <<>>
    /\ result' = NoImage
    /\ created' = FALSE
    /\ entry' = [fs |-> fs, stdout |-> stdout]
    /\ trace' = <<>>
    /\ UNCHANGED <<fs, threshold, stdout, raised>>

Next ==
    \/ OpenConvert
    \/ OpenFail
    \/ ToArray
    \/ Classify
    \/ SetAlpha
    \/ MakeResult
    \/ SaveOpen
    \/ SaveOpenFail
    \/ SaveWrite
    \/ SaveWriteFail
    \/ PrintSaved
    \/ Rerun

Spec == Init /\ [][Next]_vars

(***************************************************************************)
(* Properties                                                              *)
(***************************************************************************)
\* The file at input_path as it was when the call began.
In == entry.fs[input_path]

\* The file at output_path now.
Out == fs[output_path]

\* The save of line 19 has completed.
Written == pc \in {"L20", "done"}

\* An input pixel in four channels, alpha 255 where the file has none.
InRgba(p) == IF Len(p) = 4 THEN p ELSE <<p[1], p[2], p[3], 255>>

\* The input pixel's r, g and b all exceed t.
IsBackground(p, t) == p[1] > t /\ p[2] > t /\ p[3] > t

\* Out is a PNG whose pixel grid has the size of In's.
SameGrid ==
    /\ Out.kind = "PNG"
    /\ Len(Out.rows) = In.height
    /\ \A y \in 1..In.height : Len(Out.rows[y]) = In.width

\* The positions of a mask (indexed [x][y]) that are true.
BgSet(m) == {xy \in (1..Len(m)) \X (1..Len(m[1])) : m[xy[1]][xy[2]]}

\* C1: once the output is written, every position whose input pixel has
\* r, g and b all above the threshold holds, in the output, the same r, g, b
\* and alpha 0.
C1_BackgroundTransparent ==
    Written =>
        /\ SameGrid
        /\ \A y \in 1..In.height : \A x \in 1..In.width :
             LET p == In.rows[y][x]
             IN  IsBackground(p, threshold) => Out.rows[y][x] = <<p[1], p[2], p[3], 0>>

\* C1 witness: a written non-square image with a background pixel whose
\* alpha was not 0 and a pixel that is not background.
C1_Witness ==
    /\ Written
    /\ In.width # In.height
    /\ \E y \in 1..In.height : \E x \in 1..In.width :
         IsBackground(In.rows[y][x], threshold) /\ InRgba(In.rows[y][x])[4] # 0
    /\ \E y \in 1..In.height : \E x \in 1..In.width :
         ~IsBackground(In.rows[y][x], threshold)

\* C2: once the output is written, every position whose input pixel has at
\* least one of r, g, b less than or equal to the threshold holds, in the
\* output, the input pixel in all four channels (alpha 255 where the input
\* has none).
C2_ForegroundUnchanged ==
    Written =>
        /\ SameGrid
        /\ \A y \in 1..In.height : \A x \in 1..In.width :
             LET p == In.rows[y][x]
             IN  (p[1] <= threshold \/ p[2] <= threshold \/ p[3] <= threshold)
                     => Out.rows[y][x] = InRgba(p)

\* C2 witness: a written image with a pixel in which one channel equals the
\* threshold, the other two exceed it, and alpha is neither 0 nor 255.
C2_Witness ==
    /\ Written
    /\ \E y \in 1..In.height : \E x \in 1..In.width :
         LET p == In.rows[y][x]
         IN  /\ Len(p) = 4
             /\ p[1] = threshold /\ p[2] > threshold /\ p[3] > threshold
             /\ p[4] \notin {0, 255}
             /\ Out.rows[y][x] = p

\* C3: the transposed mask has the shape of the alpha plane it indexes, and
\* the written image has the width, the height and the pixel count of the
\* input.
C3_DimensionsPreserved ==
    /\ pc = "L15" => Shape2(T2(white_areas)) = Shape2(AlphaPlane(data))
    /\ Written =>
         /\ Out.kind = "PNG"
         /\ Out.width = In.width
         /\ Out.height = In.height
         /\ SameGrid

\* C3 witness: a written image three pixels wide and one high.
C3_Witness ==
    /\ Written
    /\ In.width = 3
    /\ In.height = 1
    /\ Out.width = 3

\* C4: when the function has run again on its own output with the same
\* threshold, the file it wrote equals the file it read.
C4_Idempotent ==
    (rerun /\ Written) => Out = In

\* C4 witness: a completed second run, to another path, over a file that
\* holds a background pixel (alpha 0) and an opaque pixel that is not.
C4_Witness ==
    /\ rerun
    /\ pc = "done"
    /\ input_path # output_path
    /\ \E y \in 1..In.height : \E x \in 1..In.width :
         IsBackground(In.rows[y][x], threshold) /\ Out.rows[y][x][4] = 0
    /\ \E y \in 1..In.height : \E x \in 1..In.width :
         ~IsBackground(In.rows[y][x], threshold) /\ Out.rows[y][x][4] = 255

\* C5: the mask computed for the call's threshold is contained in the mask
\* of every smaller threshold and contains the mask of every larger one, so
\* the number of background pixels never grows with the threshold.
C5_ThresholdMonotone ==
    pc = "L15" =>
        \A t \in Thresholds :
            /\ t <= threshold =>
                 /\ BgSet(white_areas) \subseteq BgSet(WhiteAreas(data, t))
                 /\ Cardinality(BgSet(white_areas))
                        <= Cardinality(BgSet(WhiteAreas(data, t)))
            /\ t >= threshold =>
                 /\ BgSet(WhiteAreas(data, t)) \subseteq BgSet(white_areas)
                 /\ Cardinality(BgSet(WhiteAreas(data, t)))
                        <= Cardinality(BgSet(white_areas))

\* C5 witness: a mask for the default threshold that is not empty, strictly
\* smaller than the mask for threshold 0 and strictly larger than the mask
\* for threshold 255.
C5_Witness ==
    /\ pc = "L15"
    /\ threshold = DefaultThreshold
    /\ BgSet(white_areas) # BgSet(WhiteAreas(data, 0))
    /\ BgSet(white_areas) # BgSet(WhiteAreas(data, 255))

\* C6: for an input without alpha, every pixel has alpha 255 after the
\* conversion, and in the written output a background pixel has alpha 0 and
\* every other pixel alpha 255; the written output has four channels
\* whatever the input.
C6_SynthesizedAlpha ==
    /\ (pc = "L6" /\ In.mode = "RGB") =>
         \A x \in 1..img.size[1] : \A y \in 1..img.size[2] : img.px[x][y][4] = 255
    /\ Written =>
         /\ SameGrid
         /\ Out.mode = "RGBA"
         /\ \A y \in 1..In.height : \A x \in 1..In.width : Len(Out.rows[y][x]) = 4
         /\ In.mode = "RGB" =>
              \A y \in 1..In.height : \A x \in 1..In.width :
                  Out.rows[y][x][4] =
                      IF IsBackground(In.rows[y][x], threshold) THEN 0 ELSE 255

\* C6 witness: a written image from a 3-channel input holding (255,255,255),
\* which is background for the default threshold, and a pixel that is not.
C6_Witness ==
    /\ Written
    /\ In.mode = "RGB"
    /\ threshold = DefaultThreshold
    /\ In.rows[1][1] = <<255, 255, 255>>
    /\ Out.rows[1][1] = <<255, 255, 255, 0>>
    /\ \E y \in 1..In.height : \E x \in 1..In.width : Out.rows[y][x][4] = 255

\* C7: when the call has ended, by returning or by raising, the file at
\* output_path is absent or a complete image (a file the call left as it
\* found it is not counted against it).
C7_NoPartialWrite ==
    pc \in {"done", "raised"} =>
        \/ Out.kind \in {"absent", "PNG"}
        \/ Out = entry.fs[output_path]

\* C8: a failed decode leaves the files and the output stream as they were
\* and ends the call; an exception always ends the call without a message;
\* a message is only there once the whole result is in the file at
\* output_path; no line runs twice; no file but the one at output_path
\* changes.
C8_AbortAndOrder ==
    /\ raised \in {"FileNotFoundError", "UnidentifiedImageError"} =>
         (pc = "raised" /\ trace = <<5>> /\ fs = entry.fs /\ stdout = entry.stdout)
    /\ raised # "None" => (pc = "raised" /\ stdout = entry.stdout)
    /\ pc = "raised" => raised # "None"
    /\ stdout # entry.stdout =>
         /\ pc = "done"
         /\ stdout = Append(entry.stdout, output_path)
         /\ Out = Encode(result)
    /\ \A i \in DOMAIN trace : \A j \in DOMAIN trace : i < j => trace[i] < trace[j]
    /\ \A p \in Paths : fs[p] # entry.fs[p] => p = output_path

\* C8 witness: the decode raised on an undecodable input while another file
\* sits at output_path, untouched.
C8_Witness ==
    /\ pc = "raised"
    /\ raised = "UnidentifiedImageError"
    /\ input_path # output_path
    /\ Out = StaleFile

\* C9 as stated: the file at input_path never changes during a call,
\* whatever the two paths are.
C9_SourceImmutable ==
    fs[input_path] = In

\* C9 as amended: the file at input_path never changes during a call whose
\* output_path is another file.
C9_SourceImmutableDistinctPaths ==
    input_path # output_path => fs[input_path] = In

\* C9 witness: a completed call to another path that changed the file there
\* while the input holds a background pixel.
C9_Witness ==
    /\ pc = "done"
    /\ input_path # output_path
    /\ Out # entry.fs[output_path]
    /\ \E y \in 1..In.height : \E x \in 1..In.width :
         IsBackground(In.rows[y][x], threshold)

\* C10: with a threshold of 255 or more the written output is the input in
\* four channels; with a threshold below 0 every output pixel is the input
\* pixel with alpha 0; and a call with a threshold outside 0..255 raises
\* only where a file is read or written.
C10_ThresholdOutOfRange ==
    /\ (Written /\ threshold >= 255) =>
         Out = PngFile("RGBA", [y \in 1..In.height |-> [x \in 1..In.width |->
                                   InRgba(In.rows[y][x])]])
    /\ (Written /\ threshold < 0) =>
         Out = PngFile("RGBA", [y \in 1..In.height |-> [x \in 1..In.width |->
                   <<In.rows[y][x][1], In.rows[y][x][2], In.rows[y][x][3], 0>>]])
    /\ (pc = "raised" /\ threshold \notin 0..255) =>
         (raised \in {"FileNotFoundError", "UnidentifiedImageError", "OSError"}
             /\ trace[Len(trace)] \in {5, 19})

\* C10 witness: a written image for a threshold above 255 whose input holds
\* a white pixel with alpha 200, kept as it is.
C10_Witness ==
    /\ Written
    /\ threshold > 255
    /\ In.rows[1][1] = <<255, 255, 255, 200>>
    /\ Out.rows[1][1] = <<255, 255, 255, 200>>

====
